---- MODULE Spec2Model ----
(***************************************************************************)
(* A model of the self-issued Datadog tracing helper of rust-datadog-lambda *)
(* (src/src/datadog_helper.rs): the trace identity taken from the inbound   *)
(* headers, the thread-local store of the current trace id, the span       *)
(* records (DDSpan) kept by TracingLayer's hooks, the field visitor         *)
(* (DDSpanUpdator) and the hand-over of a closed span to the agent.         *)
(***************************************************************************)
EXTENDS Integers, Sequences, FiniteSets, TLC

(***************************************************************************)
(* Bounds of the model.                                                     *)
(***************************************************************************)
\* rand::Rng::gen::<u64>() and the tracing span ids range over 0..MaxId here.
MaxId == 1
\* A header value holds at most MaxHeaderLen bytes.
MaxHeaderLen == 2
\* Utc::now() reads 1..MaxClock (epoch nanoseconds, scaled).
MaxClock == 3
\* The hooks are followed for the spans 1..MaxSpans of the registry.
MaxSpans == 1

(***************************************************************************)
(* Strings are sequences of one-character strings.                          *)
(***************************************************************************)
DigitChars == <<"0", "1", "2", "3", "4", "5", "6", "7", "8", "9">>

\* A byte that is not visible ASCII: HeaderValue::to_str fails on it.
NonAscii == "\\xff"

\* The bytes a header value is drawn from.
HeaderBytes == {"0", "1", "7", "+", "-", "x", NonAscii}

IsDigit(c) == \E d \in 1..10 : DigitChars[d] = c

DigitVal(c) == (CHOOSE d \in 1..10 : DigitChars[d] = c) - 1

\* Option::None of an Option<u64>.
None == -1

\* A header that the request does not carry.
NoHeader == [present |-> FALSE, bytes |-> <<>>]

Header(s) == [present |-> TRUE, bytes |-> s]

RECURSIVE SeqsUpTo(_, _)
SeqsUpTo(S, n) ==
  IF n = 0 THEN {<<>>}
  ELSE LET shorter == SeqsUpTo(S, n - 1)
       IN  shorter \cup {Append(s, c) : s \in shorter, c \in S}

HeaderValues == {NoHeader} \cup {Header(s) : s \in SeqsUpTo(HeaderBytes, MaxHeaderLen)}

\* HeaderValue::to_str: the text, or an error when a byte is not visible ASCII.
ToStr(bytes) ==
  IF \E i \in 1..Len(bytes) : bytes[i] = NonAscii
    THEN [ok |-> FALSE, text |-> <<>>]
    ELSE [ok |-> TRUE, text |-> bytes]

\* The digits of str::parse::<u64>, folded from the left: None on a byte that
\* is no digit.  (The texts of the model are too short to overflow 64 bits.)
RECURSIVE ParseDigits(_, _)
ParseDigits(s, acc) ==
  IF s = <<>> THEN acc
  ELSE IF ~IsDigit(Head(s)) THEN None
  ELSE ParseDigits(Tail(s), acc * 10 + DigitVal(Head(s)))

\* str::parse::<u64>: empty text and a lone sign fail, one leading "+" is
\* skipped, a "-" is no digit of an unsigned number.
ParseU64(s) ==
  IF s = <<>> THEN None
  ELSE IF Len(s) = 1 /\ (s[1] = "+" \/ s[1] = "-") THEN None
  ELSE IF s[1] = "+" THEN ParseDigits(Tail(s), 0)
  ELSE ParseDigits(s, 0)

\* headers.get(NAME)?.to_str().ok()?.parse::<u64>().ok()?
FromHeader(h) ==
  IF ~h.present THEN None
  ELSE IF ~ToStr(h.bytes).ok THEN None
  ELSE ParseU64(ToStr(h.bytes).text)

\* u64 -> HeaderValue (h.insert(NAME, id.into())): the decimal text.
RECURSIVE FormatU64(_)
FormatU64(n) ==
  IF n < 10 THEN <<DigitChars[n + 1]>>
  ELSE Append(FormatU64(n \div 10), DigitChars[(n % 10) + 1])

\* What gen_trace_id and gen_span_id can return.
RandomU64 == 0..MaxId

TRACE_ID_HEADER == "x-datadog-trace-id"
PARENT_ID_HEADER == "x-datadog-parent-id"

\* The header map of a request, as far as the helper reads it.
HeaderMap(t, p) == (TRACE_ID_HEADER :> t) @@ (PARENT_ID_HEADER :> p)

\* TraceId::from_header
TraceIdFromHeader(hs) == FromHeader(hs[TRACE_ID_HEADER])

\* A slip in ParentSpanId::from_header: it reads the trace id's header.
ParentFromTraceHeader(hs) == FromHeader(hs[TRACE_ID_HEADER])

\* ParentSpanId::from_header
ParentSpanIdFromHeader(hs) == FromHeader(hs[PARENT_ID_HEADER])

\* Option::unwrap_or_else(new): the parsed id, or the generated one.
UnwrapOrElse(opt, generated) == IF opt = None THEN generated ELSE opt

(***************************************************************************)
(* DDSpan, the span record, and DDSpanUpdator, the field visitor.           *)
(***************************************************************************)
\* A span of the registry that carries no DDSpan extension.
NoRec == [name |-> "<none>"]

\* HashMap::default()
EmptyMap == [k \in {} |-> ""]

\* impl Default for DDSpan.  meta and metrics are maps from keys to values.
DefaultDDSpan ==
  [name |-> "", trace_id |-> 0, span_id |-> 0, parent_id |-> 0,
   service |-> "", resource |-> "", start |-> 0, duration |-> 0,
   error |-> 0, meta |-> EmptyMap, metrics |-> EmptyMap, type |-> ""]

\* The field names of the model; str::starts_with("dd.") over them.
DdNames ==
  {"dd.trace_id", "dd.parent_id", "dd.resource", "dd.error",
   "dd.meta.span.kind", "dd.meta.request_id", "dd.meta.http.status_code",
   "dd.meta.error.msg", "dd.meta.http.url", "dd.meta.http.method",
   "dd.unknown"}

OtherNames ==
  {"message", "request_id", "error", "trace_id", "resource",
   "http.status_code", "elapsed"}

StartsWithDd(name) == name \in DdNames

\* One recorded value: the Visit method tracing dispatches it to (kind) and
\* the value.  u8..u64 and usize go to record_u64, i8..i64 to record_i64,
\* everything without a method of its own (f64, fmt::Arguments, ...) to
\* record_debug.
Field(name, kind, value) == [name |-> name, kind |-> kind, value |-> value]

\* HashMap::insert
Insert(map, k, v) == (k :> v) @@ map

\* record_i64
RecordI64(ds, f) ==
  IF ~StartsWithDd(f.name) THEN ds
  ELSE IF f.name = "dd.meta.http.status_code"
    THEN [ds EXCEPT !.meta = Insert(ds.meta, "http.status_code", ToString(f.value))]
  ELSE ds

\* record_u64
RecordU64(ds, f) ==
  IF ~StartsWithDd(f.name) THEN ds
  ELSE IF f.name = "dd.trace_id" THEN [ds EXCEPT !.trace_id = f.value]
  ELSE IF f.name = "dd.parent_id" THEN [ds EXCEPT !.parent_id = f.value]
  ELSE ds

\* A slip in record_bool: dd.error is not matched.
RecordBoolIgnoresError(ds, f) == ds

\* A slip in record_bool: the name is matched without its prefix.
RecordBoolAnyPrefix(ds, f) ==
  IF f.name = "dd.error" \/ f.name = "error"
    THEN [ds EXCEPT !.error = IF f.value THEN 1 ELSE 0]
  ELSE ds

\* record_bool
RecordBool(ds, f) ==
  IF ~StartsWithDd(f.name) THEN ds
  ELSE IF f.name = "dd.error"
    THEN [ds EXCEPT !.error = IF f.value THEN 1 ELSE 0]
  ELSE ds

\* record_str
RecordStr(ds, f) ==
  IF ~StartsWithDd(f.name) THEN ds
  ELSE IF f.name = "dd.resource" THEN [ds EXCEPT !.resource = f.value]
  ELSE IF f.name = "dd.meta.request_id"
    THEN [ds EXCEPT !.meta = Insert(ds.meta, "request_id", f.value)]
  ELSE IF f.name = "dd.meta.error.msg"
    THEN [ds EXCEPT !.meta = Insert(ds.meta, "error.msg", f.value)]
  ELSE IF f.name = "dd.meta.span.kind"
    THEN [ds EXCEPT !.meta = Insert(ds.meta, "span.kind", f.value)]
  ELSE IF f.name = "dd.meta.http.url"
    THEN [ds EXCEPT !.meta = Insert(ds.meta, "http.url", f.value)]
  ELSE IF f.name = "dd.meta.http.method"
    THEN [ds EXCEPT !.meta = Insert(ds.meta, "http.method", f.value)]
  ELSE ds

\* record_debug: a warning for a dd. name, nothing else.
RecordDebug(ds, f) == ds

\* impl tracing::field::Visit for DDSpanUpdator: one value.
Visit(ds, f) ==
  IF f.kind = "i64" THEN RecordI64(ds, f)
  ELSE IF f.kind = "u64" THEN RecordU64(ds, f)
  ELSE IF f.kind = "bool" THEN RecordBool(ds, f)
  ELSE IF f.kind = "str" THEN RecordStr(ds, f)
  ELSE RecordDebug(ds, f)

\* attrs.record(&mut updator) / values.record(..) / event.record(..): the
\* values are visited in the order of their declaration.
RECURSIVE RecordAll(_, _)
RecordAll(ds, fields) ==
  IF fields = <<>> THEN ds
  ELSE RecordAll(Visit(ds, Head(fields)), Tail(fields))

\* A slip in set_start_once: every on_enter sets start.
SetStartAlways(ds, n) == [ds EXCEPT !.start = n]

\* DDSpan::set_start_once, with n the reading of Utc::now().
SetStartOnce(ds, n) == IF ds.start = 0 THEN [ds EXCEPT !.start = n] ELSE ds

\* A slip in update_end: the active intervals are summed up.
UpdateEndAccumulates(ds, n) == [ds EXCEPT !.duration = ds.duration + (n - ds.start)]

\* DDSpan::update_end, with n the reading of Utc::now().
UpdateEnd(ds, n) == [ds EXCEPT !.duration = n - ds.start]

\* A slip in DDSpan::is_zero: no number counts as zero.
IsZeroNever(num) == FALSE

\* DDSpan::is_zero
IsZero(num) == num = 0

\* #[derive(Serialize)] for DDSpan: the JSON object, a map from the names of
\* its members; parent_id is skipped when DDSpan::is_zero holds of it.
JsonNames(ds) ==
  {"name", "trace_id", "span_id", "start", "duration", "service",
   "resource", "error", "meta", "metrics", "type"}
  \cup (IF IsZero(ds.parent_id) THEN {} ELSE {"parent_id"})

ToJson(ds) == [k \in JsonNames(ds) |-> ds[k]]

\* TracingLayer::with_service_name("test-owned")
ServiceName == "test-owned"

\* A slip in on_new_span: the parent's parent_id is taken for its span_id.
ParentIdsOfGrandparent(parentRec, fresh) ==
  IF parentRec = NoRec THEN <<fresh, 0>>
  ELSE <<parentRec.trace_id, parentRec.parent_id>>

\* The parent's identifiers in on_new_span: (trace_id, span_id) of the
\* parent's DDSpan, or a new trace id and 0.
ParentIds(parentRec, fresh) ==
  IF parentRec = NoRec THEN <<fresh, 0>>
  ELSE <<parentRec.trace_id, parentRec.span_id>>

\* A slip in on_new_span: the attributes first, then the identifiers.
NewDDSpanAttrsFirst(name, id, parentRec, fresh, attrs) ==
  LET ids == ParentIds(parentRec, fresh)
  IN  [RecordAll([DefaultDDSpan EXCEPT !.name = name, !.span_id = id], attrs)
         EXCEPT !.trace_id = ids[1], !.parent_id = ids[2]]

\* The DDSpan that on_new_span stores: the identifiers, then the attributes.
NewDDSpan(name, id, parentRec, fresh, attrs) ==
  LET ids == ParentIds(parentRec, fresh)
  IN  RecordAll([DefaultDDSpan EXCEPT !.name = name, !.trace_id = ids[1],
                                      !.parent_id = ids[2], !.span_id = id],
                attrs)

(***************************************************************************)
(* State.                                                                   *)
(***************************************************************************)
VARIABLES
  inHeaders,   \* the header map handed to the identity extraction
  identity,    \* what lines 27-28 of handle_request_with_trace bind
  life,        \* per span id: "free", "open" or "closed" (the registry)
  parentOf,    \* per span id: what span.parent() gives, 0 for none
  active,      \* per span id: entered and not yet exited
  dd,          \* per span id: the DDSpan in the span's extensions, or NoRec
  now,         \* the reading of Utc::now()
  posted,      \* the bodies the latest on_close handed to tasks that post them
  enters,      \* per span id: the number of on_enter calls
  firstEnter,  \* per span id: the clock at the first on_enter
  lastExit,    \* per span id: the clock at the last on_exit
  born,        \* per span id: what on_new_span saw and stored
  visited,     \* the latest visit of fields that are all outside of "dd."
  sending,     \* the bodies of the spawned tasks whose post has not finished
  finished,    \* the posts that finished: the body and whether it was sent
  req,         \* per request: the locals of handle_request_with_trace
  TRACE_ID,    \* per thread: the thread-local TRACE_ID, Unset before its use
  outbound,    \* per request: the request client.execute is sending
  waiting,     \* per record: the tasks of on_end that await tx.send(span)
  queue,       \* the records in the channel of SpanProcessor, oldest first
  exporting,   \* the record the consumer loop gave to exporter.export
  mark,        \* where the marked record is, and what it met at on_end
  lastExport   \* how the latest exporter.export ended

hookVars == <<life, parentOf, active, dd, now, posted, enters, firstEnter,
              lastExit, born, visited, sending, finished>>

idVars == <<inHeaders, identity>>

reqVars == <<req, TRACE_ID, outbound>>

procVars == <<waiting, queue, exporting, mark, lastExport>>

vars == <<inHeaders, identity, life, parentOf, active, dd, now, posted,
          enters, firstEnter, lastExit, born, visited, sending, finished,
          req, TRACE_ID, outbound, waiting, queue, exporting, mark,
          lastExport>>

\* The span ids of the registry.
Spans == DOMAIN life

HasRec(s) == dd[s] # NoRec

\* Before lines 27-28 ran.
NoIdentity == [trace_id |-> None]

\* A span never seen by on_new_span.
NotBorn == [seen |-> FALSE]

\* No field outside of "dd." was visited yet.
NoVisit == [span |-> 0]

(***************************************************************************)
(* The trace identity of a request: lines 27-28.                            *)
(***************************************************************************)
\* let trace_id = TraceId::from_header(..).unwrap_or_else(TraceId::new);
\* let parent_id = ParentSpanId::from_header(..).unwrap_or_else(ParentSpanId::new);
\* newT and newP are what gen_trace_id and gen_span_id return when called.
Identity(hs, newT, newP) ==
  [trace_id |-> UnwrapOrElse(TraceIdFromHeader(hs), newT),
   parent_id |-> UnwrapOrElse(ParentSpanIdFromHeader(hs), newP),
   generated |-> TraceIdFromHeader(hs) = None]

ExtractIdentity ==
  /\ identity = NoIdentity
  /\ \E newT \in RandomU64, newP \in RandomU64 :
       identity' = Identity(inHeaders, newT, newP)
  /\ UNCHANGED <<inHeaders, hookVars, reqVars, procVars>>

(***************************************************************************)
(* The inputs of the hooks.                                                 *)
(***************************************************************************)
\* An id carried by an inbound header, outside of what the model generates.
HeaderId == MaxId + 10

\* The attributes of info_span!("handle_request_root", ...): the Empty and
\* the None value are not recorded.
RootAttrs(trace_id, parent_id, path, request_id) ==
  <<Field("dd.trace_id", "u64", trace_id),
    Field("dd.parent_id", "u64", parent_id),
    Field("dd.resource", "str", path),
    Field("dd.error", "bool", FALSE),
    Field("dd.meta.span.kind", "str", "server"),
    Field("dd.meta.request_id", "str", request_id)>>

\* The attributes of info_span!("reqwest.http", ...).
ReqwestAttrs(url, method) ==
  <<Field("dd.resource", "str", url),
    Field("dd.error", "bool", FALSE),
    Field("dd.meta.span.kind", "str", "client"),
    Field("dd.meta.http.method", "str", method)>>

HasField(attrs, name) == \E i \in 1..Len(attrs) : attrs[i].name = name

\* The fields are some, and all of them have names outside of "dd.".
AllOutside(fields) ==
  /\ fields # <<>>
  /\ \A i \in 1..Len(fields) : ~StartsWithDd(fields[i].name)

\* What the visitor made of the record of span s in the hook, kept for
\* fields that are all outside of "dd.".
Visited(s, hook, before, fields, after) ==
  IF AllOutside(fields)
    THEN [span |-> s, hook |-> hook, before |-> before, fields |-> fields,
          after |-> after]
    ELSE visited

(***************************************************************************)
(* The hooks of TracingLayer.                                               *)
(***************************************************************************)
\* The registry hands out span ids in order; a parent is an open span.
CanCreate(s, p) ==
  /\ life[s] = "free"
  /\ \A q \in Spans : q < s => life[q] # "free"
  /\ p = 0 \/ (p \in Spans /\ life[p] = "open")

ParentRec(p) == IF p = 0 THEN NoRec ELSE dd[p]

\* What on_new_span saw and stored, for the properties.
Birth(p, fresh, attrs, ds) ==
  [seen |-> TRUE,
   parent |-> p,
   parentSpan |-> IF ParentRec(p) = NoRec THEN None ELSE dd[p].span_id,
   parentTrace |-> IF ParentRec(p) = NoRec THEN None ELSE dd[p].trace_id,
   minted |-> IF ParentRec(p) = NoRec /\ ~HasField(attrs, "dd.trace_id")
                THEN fresh ELSE None,
   hasTraceId |-> HasField(attrs, "dd.trace_id"),
   hasParentId |-> HasField(attrs, "dd.parent_id"),
   ids |-> <<ds.trace_id, ds.parent_id>>]

\* on_new_span(attrs, id, ctx) for span s with parent p.
OnNewSpan(s, p, attrs, fresh) ==
  /\ CanCreate(s, p)
  /\ life' = [life EXCEPT ![s] = "open"]
  /\ parentOf' = [parentOf EXCEPT ![s] = p]
  /\ dd' = [dd EXCEPT ![s] = NewDDSpan("span", s, ParentRec(p), fresh, attrs)]
  /\ born' = [born EXCEPT ![s] = Birth(p, fresh, attrs, dd'[s])]
  /\ visited' = Visited(s, "on_new_span",
                        NewDDSpan("span", s, ParentRec(p), fresh, <<>>),
                        attrs, dd'[s])
  /\ UNCHANGED <<active, now, posted, sending, finished, enters, firstEnter, lastExit>>
  /\ UNCHANGED <<idVars, procVars, reqVars>>

\* A span of the registry that this layer stored no DDSpan for.
UntrackedSpan(s, p) ==
  /\ CanCreate(s, p)
  /\ life' = [life EXCEPT ![s] = "open"]
  /\ parentOf' = [parentOf EXCEPT ![s] = p]
  /\ UNCHANGED <<active, dd, now, posted, sending, finished, enters, firstEnter, lastExit, born,
                 visited>>
  /\ UNCHANGED <<idVars, procVars, reqVars>>

\* A slip in with_dd_span: a span without a DDSpan is given a default one.
WithDDSpanOrDefault(s, new) ==
  IF HasRec(s) THEN [dd EXCEPT ![s] = new]
               ELSE [dd EXCEPT ![s] = DefaultDDSpan]

\* with_dd_span(span, f): f on the DDSpan, nothing without one.
WithDDSpan(s, new) == IF HasRec(s) THEN [dd EXCEPT ![s] = new] ELSE dd

\* on_record(id, values, ctx)
OnRecord(s, values) ==
  /\ life[s] = "open"
  /\ dd' = WithDDSpan(s, RecordAll(dd[s], values))
  /\ visited' = IF HasRec(s)
                  THEN Visited(s, "on_record", dd[s], values, dd'[s])
                  ELSE visited
  /\ UNCHANGED <<life, parentOf, active, now, posted, sending, finished, enters, firstEnter,
                 lastExit, born>>
  /\ UNCHANGED <<idVars, procVars, reqVars>>

\* on_event(event, ctx): an event logged while s is the current span.
OnEvent(s, values) ==
  /\ life[s] = "open"
  /\ active[s]
  /\ dd' = WithDDSpan(s, RecordAll(dd[s], values))
  /\ visited' = IF HasRec(s)
                  THEN Visited(s, "on_event", dd[s], values, dd'[s])
                  ELSE visited
  /\ UNCHANGED <<life, parentOf, active, now, posted, sending, finished, enters, firstEnter,
                 lastExit, born>>
  /\ UNCHANGED <<idVars, procVars, reqVars>>

\* The number of on_enter calls the model follows per span.
MaxEnters == 2

\* on_enter(id, ctx)
OnEnter(s) ==
  /\ life[s] = "open"
  /\ ~active[s]
  /\ enters[s] < MaxEnters
  /\ active' = [active EXCEPT ![s] = TRUE]
  /\ dd' = WithDDSpan(s, SetStartOnce(dd[s], now))
  /\ enters' = [enters EXCEPT ![s] = @ + 1]
  /\ firstEnter' = [firstEnter EXCEPT ![s] = IF enters[s] = 0 THEN now ELSE @]
  /\ UNCHANGED <<life, parentOf, now, posted, sending, finished, lastExit, born, visited>>
  /\ UNCHANGED <<idVars, procVars, reqVars>>

\* on_exit(id, ctx)
OnExit(s) ==
  /\ life[s] = "open"
  /\ active[s]
  /\ active' = [active EXCEPT ![s] = FALSE]
  /\ dd' = WithDDSpan(s, UpdateEnd(dd[s], now))
  /\ lastExit' = [lastExit EXCEPT ![s] = now]
  /\ UNCHANGED <<life, parentOf, now, posted, sending, finished, enters, firstEnter, born,
                 visited>>
  /\ UNCHANGED <<idVars, procVars, reqVars>>

\* send_to_datadog_agent(span): the service name is set, the span is
\* serialized and the body is moved to a task that posts it.
WithService(ds) == [ds EXCEPT !.service = ServiceName]

\* A slip in send_to_datadog_agent: the end is taken once more at the close.
BodyWithEnd(ds) == <<<<ToJson(WithService(UpdateEnd(ds, now)))>>>>

\* A slip in send_to_datadog_agent: an empty record is serialized.
BodyOfDefault(ds) == <<<<ToJson(WithService(DefaultDDSpan))>>>>

Body(ds) == <<<<ToJson(WithService(ds))>>>>

\* The span object of a body.
SpanOf(body) == body[1][1]

\* on_close(id, ctx): the last handle of the span is dropped; a child keeps
\* its parent open.  The registry then drops the span with its extensions.
OnClose(s) ==
  /\ life[s] = "open"
  /\ ~active[s]
  /\ \A c \in Spans : life[c] = "open" => parentOf[c] # s
  /\ life' = [life EXCEPT ![s] = "closed"]
  /\ posted' = IF HasRec(s) THEN <<Body(dd[s])>> ELSE <<>>
  /\ sending' = IF HasRec(s) THEN sending \cup {Body(dd[s])} ELSE sending
  /\ dd' = [dd EXCEPT ![s] = NoRec]
  /\ UNCHANGED <<parentOf, active, now, enters, firstEnter, lastExit, born,
                 visited, finished>>
  /\ UNCHANGED <<idVars, procVars, reqVars>>

\* The task spawned by send_to_datadog_agent for body b ends: the post was
\* sent (ok), or it failed, a warning is logged and the body is dropped.
PostDone(b, ok) ==
  /\ b \in sending
  /\ sending' = sending \ {b}
  /\ finished' = finished \cup {[body |-> b, ok |-> ok]}
  /\ UNCHANGED <<life, parentOf, active, dd, now, posted, enters, firstEnter,
                 lastExit, born, visited>>
  /\ UNCHANGED <<idVars, procVars, reqVars>>

\* Time passes.
Tick ==
  /\ now < MaxClock
  /\ now' = now + 1
  /\ UNCHANGED <<life, parentOf, active, dd, posted, sending, finished, enters, firstEnter,
                 lastExit, born, visited>>
  /\ UNCHANGED <<idVars, procVars, reqVars>>

\* Utc::now() is the wall clock of the system: between two readings it may
\* have been set, forward or back.
ClockSet(n) ==
  /\ n \in 1..MaxClock
  /\ n # now
  /\ now' = n
  /\ UNCHANGED <<life, parentOf, active, dd, posted, sending, finished, enters,
                 firstEnter, lastExit, born, visited>>
  /\ UNCHANGED <<idVars, procVars, reqVars>>

\* No span yet, over the span ids 1..n.
HookInit(n) ==
  /\ life = [s \in 1..n |-> "free"]
  /\ parentOf = [s \in 1..n |-> 0]
  /\ active = [s \in 1..n |-> FALSE]
  /\ dd = [s \in 1..n |-> NoRec]
  /\ now = 1
  /\ posted = <<>>
  /\ enters = [s \in 1..n |-> 0]
  /\ firstEnter = [s \in 1..n |-> 0]
  /\ lastExit = [s \in 1..n |-> 0]
  /\ born = [s \in 1..n |-> NotBorn]
  /\ visited = NoVisit
  /\ sending = {}
  /\ finished = {}

IdIdle ==
  /\ inHeaders = HeaderMap(NoHeader, NoHeader)
  /\ identity = NoIdentity

\* The requests and the threads of the runtime.
Reqs == {"A", "B"}

Threads == {"t1", "t2"}

\* A thread-local that was not touched yet.
Unset == -1

\* No request is with client.execute.
NoCall == [span |-> 0]

\* No outcome yet: f, or client.execute, did not return.
NoOutcome == [ok |-> FALSE, status |-> 0, msg |-> "<none>"]

\* A request that did not arrive yet.  res is what the handler f gave, ret
\* what handle_request_with_trace returned, callRes what the latest
\* client.execute gave.
NewReq ==
  [pc |-> "new", thread |-> "t1", headers |-> HeaderMap(NoHeader, NoHeader),
   trace_id |-> None, parent_id |-> None, outer |-> 0, root |-> 0,
   call |-> 0, calls |-> 0, res |-> NoOutcome, ret |-> NoOutcome,
   callRes |-> NoOutcome]

\* The records SpanProcessor is followed with: spans like any other, and one
\* marked span.  SpanData is looked at no further.
Records == {"span", "marked"}

\* The consumer loop is in rx.recv().
Idle == "idle"

\* The marked span did not end yet.
NewMark == [at |-> "new", full |-> FALSE]

\* SpanProcessor::new: an empty channel, the consumer loop in rx.recv().
ProcIdle ==
  /\ waiting = [rec \in Records |-> 0]
  /\ queue = <<>>
  /\ exporting = Idle
  /\ mark = NewMark
  /\ lastExport = "none"

ReqIdle ==
  /\ req = [r \in Reqs |-> NewReq]
  /\ TRACE_ID = [t \in Threads |-> Unset]
  /\ outbound = [r \in Reqs |-> NoCall]
  /\ ProcIdle

(***************************************************************************)
(* Spec: the hooks of TracingLayer over the life of spans.                  *)
(***************************************************************************)
\* The attribute lists spans are created with.
SpanAttrs == {<<>>}

\* The values span.record(..) and the events of a span carry.
SpanValues ==
  {Field("dd.error", "bool", TRUE),
   Field("dd.error", "bool", FALSE),
   Field("dd.meta.http.status_code", "u64", 500),
   Field("dd.unknown", "str", "u")}

Init == HookInit(MaxSpans) /\ IdIdle /\ ReqIdle

Next ==
  \/ \E s \in Spans, p \in Spans \cup {0}, attrs \in SpanAttrs, fresh \in RandomU64 :
       OnNewSpan(s, p, attrs, fresh)
  \/ \E s \in Spans, p \in Spans \cup {0} : UntrackedSpan(s, p)
  \/ \E s \in Spans, v \in SpanValues : OnRecord(s, <<v>>)
  \/ \E s \in Spans, v \in SpanValues : OnEvent(s, <<v>>)
  \/ \E s \in Spans : OnEnter(s)
  \/ \E s \in Spans : OnExit(s)
  \/ \E s \in Spans : OnClose(s)
  \/ Tick

Spec == Init /\ [][Next]_vars

(***************************************************************************)
(* SpecVisit: the visitor over fields of every kind, with names inside and  *)
(* outside of "dd.", as creation attributes, in span.record(..) and in      *)
(* events.                                                                  *)
(***************************************************************************)
\* Fields outside of "dd.", one per method of the visitor and more; a f64
\* has no method of its own and goes to record_debug.
OutsideFields ==
  {Field("http.status_code", "i64", 500),
   Field("trace_id", "u64", HeaderId),
   Field("error", "bool", FALSE),
   Field("error", "bool", TRUE),
   Field("resource", "str", "r"),
   Field("elapsed", "debug", "f64")}

\* Fields inside of "dd.".
InsideFields ==
  {Field("dd.error", "bool", TRUE),
   Field("dd.meta.request_id", "str", "rid")}

\* The field lists of one span!(..), span.record(..) or event.
VisitLists ==
  {<<f>> : f \in OutsideFields \cup InsideFields}
  \cup {<<Field("message", "debug", "m"), Field("error", "bool", TRUE)>>}

InitVisit == HookInit(MaxSpans) /\ IdIdle /\ ReqIdle

NextVisit ==
  \/ \E s \in Spans, p \in Spans \cup {0}, attrs \in VisitLists, fresh \in RandomU64 :
       OnNewSpan(s, p, attrs, fresh)
  \/ \E s \in Spans, vs \in VisitLists : OnRecord(s, vs)
  \/ \E s \in Spans : OnEnter(s)
  \/ \E s \in Spans, vs \in VisitLists : OnEvent(s, vs)

SpecVisit == InitVisit /\ [][NextVisit]_vars

(***************************************************************************)
(* SpecIdentity: the identity extraction over all header maps.              *)
(***************************************************************************)
InitIdentity ==
  /\ HookInit(MaxSpans)
  /\ inHeaders \in {HeaderMap(t, p) : t \in HeaderValues, p \in HeaderValues}
  /\ identity = NoIdentity
  /\ ReqIdle

NextIdentity == ExtractIdentity

SpecIdentity == InitIdentity /\ [][NextIdentity]_vars

(***************************************************************************)
(* SpecTree: on_new_span over parents and creation attributes.              *)
(***************************************************************************)
\* The spans of the span trees.
MaxTreeSpans == 2

TreeAttrs ==
  {<<>>,
   <<Field("dd.trace_id", "u64", HeaderId)>>,
   <<Field("dd.parent_id", "u64", HeaderId)>>,
   ReqwestAttrs("http://h/", "GET"),
   RootAttrs(HeaderId, HeaderId, "/p", "rid")}

TreeValues == {Field("dd.trace_id", "u64", HeaderId + 1)}

InitTree == HookInit(MaxTreeSpans) /\ IdIdle /\ ReqIdle

NextTree ==
  \/ \E s \in Spans, p \in Spans \cup {0}, attrs \in TreeAttrs, fresh \in RandomU64 :
       OnNewSpan(s, p, attrs, fresh)
  \/ \E s \in Spans, p \in Spans \cup {0} : UntrackedSpan(s, p)
  \/ \E s \in Spans, v \in TreeValues : OnRecord(s, <<v>>)
  \/ \E s \in Spans : OnClose(s)

SpecTree == InitTree /\ [][NextTree]_vars

(***************************************************************************)
(* SpecExport: spans that close, and the tasks send_to_datadog_agent spawns *)
(* to post them, each ending with the post sent or failed.                  *)
(***************************************************************************)
ExportAttrs == {<<>>, <<Field("dd.resource", "str", "/p")>>}

ExportValues == {Field("dd.error", "bool", TRUE)}

InitExport == HookInit(MaxTreeSpans) /\ IdIdle /\ ReqIdle

NextExport ==
  \/ \E s \in Spans, p \in Spans \cup {0}, attrs \in ExportAttrs, fresh \in RandomU64 :
       OnNewSpan(s, p, attrs, fresh)
  \/ \E s \in Spans, v \in ExportValues : OnRecord(s, <<v>>)
  \/ \E s \in Spans : OnClose(s)
  \/ \E b \in sending, ok \in BOOLEAN : PostDone(b, ok)

SpecExport == InitExport /\ [][NextExport]_vars

(***************************************************************************)
(* SpanProcessor (span_processor.rs): on_end hands each sampled span to a   *)
(* task of its own, which sends it into a bounded channel; one consumer     *)
(* loop receives the spans one at a time and gives each to the exporter.    *)
(***************************************************************************)
\* tokio::sync::mpsc::channel::<SpanData>(32)
Capacity == 32

\* The tasks of on_end that did not send yet.
MaxWaiting == 2

Blocked == waiting["span"] + waiting["marked"]

\* The records between on_end and exporter.export.
InFlight == Blocked + Len(queue) + (IF exporting = Idle THEN 0 ELSE 1)

\* Where the marked span is after on_end(rec): with a task when it is
\* sampled, nowhere when it is not.
Ended(rec, sampled) ==
  IF rec = "marked"
    THEN [at |-> IF sampled THEN "ended" ELSE "unsampled",
          full |-> Len(queue) = Capacity]
    ELSE mark

\* A slip in on_end: the sampled flag of the span is not looked at.
OnEndOfAny(rec, sampled, room) ==
  /\ rec = "marked" => mark.at = "new"
  /\ InFlight < room
  /\ waiting' = [waiting EXCEPT ![rec] = @ + 1]
  /\ mark' = Ended(rec, sampled)
  /\ UNCHANGED <<queue, exporting, lastExport>>
  /\ UNCHANGED <<hookVars, idVars, reqVars>>

\* on_end(span): an unsampled span is left alone; for a sampled one a task
\* is spawned that sends it, and on_end returns.  No more than room records
\* are followed at a time.
OnEnd(rec, sampled, room) ==
  /\ rec = "marked" => mark.at = "new"
  /\ sampled => InFlight < room
  /\ waiting' = IF sampled THEN [waiting EXCEPT ![rec] = @ + 1] ELSE waiting
  /\ mark' = Ended(rec, sampled)
  /\ UNCHANGED <<queue, exporting, lastExport>>
  /\ UNCHANGED <<hookVars, idVars, reqVars>>

\* A slip in the channel: a send is let in whatever the channel holds.
SendUnbounded(rec) ==
  /\ waiting[rec] > 0
  /\ waiting' = [waiting EXCEPT ![rec] = @ - 1]
  /\ queue' = Append(queue, rec)
  /\ UNCHANGED <<exporting, mark, lastExport>>
  /\ UNCHANGED <<hookVars, idVars, reqVars>>

\* tx.send(span).await of a task of on_end completes: the channel had a
\* free slot.
Send(rec) ==
  /\ waiting[rec] > 0
  /\ Len(queue) < Capacity
  /\ waiting' = [waiting EXCEPT ![rec] = @ - 1]
  /\ queue' = Append(queue, rec)
  /\ UNCHANGED <<exporting, mark, lastExport>>
  /\ UNCHANGED <<hookVars, idVars, reqVars>>

\* A slip in the consumer loop: the span is read and left in the channel.
RecvPeeks ==
  /\ exporting = Idle
  /\ queue # <<>>
  /\ exporting' = Head(queue)
  /\ UNCHANGED <<waiting, queue, mark, lastExport>>
  /\ UNCHANGED <<hookVars, idVars, reqVars>>

\* rx.recv().await of the consumer loop yields the oldest span, which is
\* given to exporter.export.
Recv ==
  /\ exporting = Idle
  /\ queue # <<>>
  /\ exporting' = Head(queue)
  /\ queue' = Tail(queue)
  /\ UNCHANGED <<waiting, mark, lastExport>>
  /\ UNCHANGED <<hookVars, idVars, reqVars>>

\* Where the marked span is after the export of rec ended.
Settled(rec, outcome) ==
  IF rec = "marked" THEN [mark EXCEPT !.at = outcome] ELSE mark

\* A slip in the consumer loop: a span whose export failed is sent into the
\* channel again.
ExportedRetries(ok) ==
  /\ exporting # Idle
  /\ exporting' = Idle
  /\ lastExport' = IF ok THEN "ok" ELSE "failed"
  /\ mark' = Settled(exporting, IF ok THEN "sent" ELSE "dropped")
  /\ queue' = IF ok THEN queue ELSE Append(queue, exporting)
  /\ UNCHANGED waiting
  /\ UNCHANGED <<hookVars, idVars, reqVars>>

\* A slip in the consumer loop: a failed export ends the loop.
ExportedStops(ok) ==
  /\ exporting \notin {Idle, "stopped"}
  /\ exporting' = IF ok THEN Idle ELSE "stopped"
  /\ lastExport' = IF ok THEN "ok" ELSE "failed"
  /\ mark' = Settled(exporting, IF ok THEN "sent" ELSE "dropped")
  /\ UNCHANGED <<waiting, queue>>
  /\ UNCHANGED <<hookVars, idVars, reqVars>>

\* exporter.export(vec![span]).await returns: Ok, or an Err that is logged;
\* either way the loop goes back to rx.recv().
Exported(ok) ==
  /\ exporting # Idle
  /\ exporting' = Idle
  /\ lastExport' = IF ok THEN "ok" ELSE "failed"
  /\ mark' = Settled(exporting, IF ok THEN "sent" ELSE "dropped")
  /\ UNCHANGED <<waiting, queue>>
  /\ UNCHANGED <<hookVars, idVars, reqVars>>

ExportReturns == \E ok \in BOOLEAN : Exported(ok)

InitQueue == HookInit(MaxSpans) /\ IdIdle /\ ReqIdle

NextQueue ==
  \/ \E rec \in Records, sampled \in BOOLEAN :
       OnEnd(rec, sampled, Capacity + MaxWaiting)
  \/ \E rec \in Records : Send(rec)
  \/ Recv
  \/ ExportReturns

SpecQueue == InitQueue /\ [][NextQueue]_vars

\* The runtime polls every task that can go on, so the consumer loop takes
\* the next span and every export returns; the channel serves the waiting
\* senders in turn, so a sender that finds the channel free again and again
\* gets its slot.
FairSpecQueue ==
  /\ SpecQueue
  /\ WF_vars(Recv)
  /\ WF_vars(ExportReturns)
  /\ SF_vars(Send("marked"))

(***************************************************************************)
(* Both exporters side by side, each with the end of its sends: the posts   *)
(* of TracingLayer and the exports of SpanProcessor.                        *)
(***************************************************************************)
InitDrop == HookInit(MaxSpans) /\ IdIdle /\ ReqIdle

NextDrop ==
  \/ \E s \in Spans, fresh \in RandomU64 : OnNewSpan(s, 0, <<>>, fresh)
  \/ \E s \in Spans : OnClose(s)
  \/ \E b \in sending, ok \in BOOLEAN : PostDone(b, ok)
  \/ \E rec \in Records, sampled \in BOOLEAN : OnEnd(rec, sampled, MaxWaiting)
  \/ \E rec \in Records : Send(rec)
  \/ Recv
  \/ ExportReturns

SpecDrop == InitDrop /\ [][NextDrop]_vars

(***************************************************************************)
(* The hooks over spans with and without a DDSpan, side by side.            *)
(***************************************************************************)
BareValues == {Field("dd.error", "bool", TRUE)}

InitBare == HookInit(MaxTreeSpans) /\ IdIdle /\ ReqIdle

NextBare ==
  \/ \E s \in Spans, fresh \in RandomU64 : OnNewSpan(s, 0, <<>>, fresh)
  \/ \E s \in Spans, p \in Spans \cup {0} : UntrackedSpan(s, p)
  \/ \E s \in Spans, v \in BareValues : OnRecord(s, <<v>>)
  \/ \E s \in Spans, v \in BareValues : OnEvent(s, <<v>>)
  \/ \E s \in Spans : OnEnter(s)
  \/ \E s \in Spans : OnExit(s)
  \/ \E s \in Spans : OnClose(s)

SpecBare == InitBare /\ [][NextBare]_vars

(***************************************************************************)
(* The hooks that read the clock, under a wall clock that can be set.       *)
(***************************************************************************)
InitClock == HookInit(MaxSpans) /\ IdIdle /\ ReqIdle

NextClock ==
  \/ \E s \in Spans, fresh \in RandomU64 : OnNewSpan(s, 0, <<>>, fresh)
  \/ \E s \in Spans : OnEnter(s)
  \/ \E s \in Spans : OnExit(s)
  \/ \E s \in Spans : OnClose(s)
  \/ \E n \in 1..MaxClock : ClockSet(n)

SpecClock == InitClock /\ [][NextClock]_vars

(***************************************************************************)
(* Requests: handle_request_with_trace and request_http on the threads of   *)
(* the runtime.  The handler f of a request calls request_http up to        *)
(* MaxCalls times, one call after the other, and returns; wherever it       *)
(* awaits, the runtime may poll another request's task and may resume this  *)
(* one on another thread.  The span that is current for a request's code is *)
(* the innermost span the request entered.                                  *)
(***************************************************************************)
\* The calls of request_http one handler makes.
MaxCalls == 1

\* The spans one request needs: the runtime's, the root and one per call.
OneSpanCount == 2 + MaxCalls

\* The spans the concurrent requests need: the root and one per call each.
ReqSpanCount == Cardinality(Reqs) * (1 + MaxCalls)

\* The header maps of the requests: no header, the two headers as another
\* service sends them, a trace id without a parent id, and text that is no
\* number.
ReqHeaderMaps ==
  {HeaderMap(NoHeader, NoHeader),
   HeaderMap(Header(FormatU64(HeaderId)), Header(FormatU64(HeaderId + 1))),
   HeaderMap(Header(FormatU64(HeaderId)), NoHeader),
   HeaderMap(Header(<<"x">>), Header(<<"x">>))}

\* What the handler f, and client.execute, return.
Ok(status) == [ok |-> TRUE, status |-> status, msg |-> ""]

Err(msg) == [ok |-> FALSE, status |-> 0, msg |-> msg]

Outcomes == {Ok(200), Ok(500), Err("boom")}

\* The span id the registry hands out next.
FreeSpans == {s \in Spans : life[s] = "free"}

NextSpan == CHOOSE s \in FreeSpans : \A q \in FreeSpans : s <= q

\* The values of span.record(..) after the wrapped operation (lines 62-75
\* and 99-114), in the order they are recorded.
OutcomeValues(res) ==
  IF res.ok
    THEN <<Field("dd.meta.http.status_code", "u64", res.status)>>
         \o (IF res.status >= 500 THEN <<Field("dd.error", "bool", TRUE)>>
             ELSE <<>>)
    ELSE <<Field("dd.error", "bool", TRUE),
           Field("dd.meta.error.msg", "str", res.msg)>>

\* info_span!(..) and span.enter() for span s with parent p: on_new_span and
\* on_enter.
Opened(s, p, name, attrs, fresh) ==
  LET ds == NewDDSpan(name, s, ParentRec(p), fresh, attrs)
  IN  /\ life' = [life EXCEPT ![s] = "open"]
      /\ parentOf' = [parentOf EXCEPT ![s] = p]
      /\ born' = [born EXCEPT ![s] = Birth(p, fresh, attrs, ds)]
      /\ dd' = [dd EXCEPT ![s] = SetStartOnce(ds, now)]
      /\ active' = [active EXCEPT ![s] = TRUE]
      /\ enters' = [enters EXCEPT ![s] = 1]
      /\ firstEnter' = [firstEnter EXCEPT ![s] = now]
      /\ visited' = Visited(s, "on_new_span",
                            NewDDSpan(name, s, ParentRec(p), fresh, <<>>),
                            attrs, ds)
      /\ UNCHANGED <<now, posted, sending, finished, lastExit>>

\* The values are recorded on span s (on_record), then the guard of
\* span.enter() is dropped (on_exit) and then the span (on_close).
Closed(s, values) ==
  /\ active' = [active EXCEPT ![s] = FALSE]
  /\ lastExit' = [lastExit EXCEPT ![s] = now]
  /\ life' = [life EXCEPT ![s] = "closed"]
  /\ posted' = <<Body(UpdateEnd(RecordAll(dd[s], values), now))>>
  /\ sending' = sending \cup {Body(UpdateEnd(RecordAll(dd[s], values), now))}
  /\ dd' = [dd EXCEPT ![s] = NoRec]
  /\ visited' = Visited(s, "on_record", dd[s], values,
                        RecordAll(dd[s], values))
  /\ UNCHANGED <<parentOf, now, enters, firstEnter, born, finished>>

\* The runtime calls the handler of request r inside a span of its own
\* (lines 32-38).
Invoke(r, fresh) ==
  /\ req[r].pc = "new"
  /\ req[r].outer = 0
  /\ FreeSpans # {}
  /\ Opened(NextSpan, 0, "Lambda runtime invoke", <<>>, fresh)
  /\ req' = [req EXCEPT ![r].outer = NextSpan]
  /\ UNCHANGED <<TRACE_ID, outbound, idVars, procVars>>

\* Lines 20-61 of handle_request_with_trace, up to the call of f, on thread
\* t: the identity, TraceId::store, the root span and span.enter().
Start(r, t, hs, newT, newP, fresh) ==
  LET id == Identity(hs, newT, newP)
  IN  /\ req[r].pc = "new"
      /\ FreeSpans # {}
      /\ Opened(NextSpan, req[r].outer, "handle_request_root",
                RootAttrs(id.trace_id, id.parent_id, "/p", "rid"), fresh)
      /\ req' = [req EXCEPT ![r].pc = "handling", ![r].thread = t,
                            ![r].headers = hs, ![r].trace_id = id.trace_id,
                            ![r].parent_id = id.parent_id,
                            ![r].root = NextSpan]
      /\ TRACE_ID' = [TRACE_ID EXCEPT ![t] = id.trace_id]
      /\ UNCHANGED <<outbound, idVars, procVars>>

\* Lines 20-46 of handle_request_with_trace for a request whose API Gateway
\* context carries no path: rest_api_ctx.path.unwrap() panics, after
\* TraceId::store and before the root span and the call of f.
Abort(r, t, hs, newT, newP) ==
  LET id == Identity(hs, newT, newP)
  IN  /\ req[r].pc = "new"
      /\ req' = [req EXCEPT ![r].pc = "aborted", ![r].thread = t,
                            ![r].headers = hs, ![r].trace_id = id.trace_id,
                            ![r].parent_id = id.parent_id]
      /\ TRACE_ID' = [TRACE_ID EXCEPT ![t] = id.trace_id]
      /\ UNCHANGED <<outbound, hookVars, idVars, procVars>>

\* The task of request r, suspended at an await of its handler, is resumed
\* on thread t.
Resume(r, t) ==
  /\ req[r].pc = "handling"
  /\ req[r].thread # t
  /\ req' = [req EXCEPT ![r].thread = t]
  /\ UNCHANGED <<TRACE_ID, outbound, hookVars, idVars, procVars>>

\* TraceId::get_current on thread t; init is what TraceId::new() gives when
\* the thread-local is first touched.
GetCurrent(t, init) == IF TRACE_ID[t] = Unset THEN init ELSE TRACE_ID[t]

\* Lines 83-98 of request_http, up to client.execute: the span, span.enter()
\* and the two headers of the outbound request.
Call(r, fresh, init) ==
  LET t == req[r].thread
      trace_id == GetCurrent(t, init)
  IN  /\ req[r].pc = "handling"
      /\ req[r].calls < MaxCalls
      /\ FreeSpans # {}
      /\ Opened(NextSpan, req[r].root, "reqwest.http",
                ReqwestAttrs("http://h/", "GET"), fresh)
      /\ req' = [req EXCEPT ![r].pc = "calling", ![r].call = NextSpan,
                            ![r].calls = @ + 1]
      /\ TRACE_ID' = [TRACE_ID EXCEPT ![t] = trace_id]
      /\ outbound' = [outbound EXCEPT ![r] =
            [span |-> NextSpan, current |-> trace_id,
             headers |-> HeaderMap(Header(FormatU64(trace_id)),
                                   Header(FormatU64(NextSpan)))]]
      /\ UNCHANGED <<idVars, procVars>>

\* Lines 99-114 of request_http: client.execute gave res.
Reply(r, res) ==
  /\ req[r].pc = "calling"
  /\ Closed(req[r].call, OutcomeValues(res))
  /\ req' = [req EXCEPT ![r].pc = "handling", ![r].callRes = res]
  /\ outbound' = [outbound EXCEPT ![r] = NoCall]
  /\ UNCHANGED <<TRACE_ID, idVars, procVars>>

\* Lines 62-75 of handle_request_with_trace: f gave res.
Finish(r, res) ==
  /\ req[r].pc = "handling"
  /\ Closed(req[r].root, OutcomeValues(res))
  /\ req' = [req EXCEPT ![r].pc = "done", ![r].res = res, ![r].ret = res]
  /\ UNCHANGED <<TRACE_ID, outbound, idVars, procVars>>

\* The runtime leaves its span once the handler has returned.
Leave(r) ==
  /\ req[r].pc = "done"
  /\ req[r].outer # 0
  /\ life[req[r].outer] = "open"
  /\ Closed(req[r].outer, <<>>)
  /\ UNCHANGED <<reqVars, idVars, procVars>>

(***************************************************************************)
(* SpecOne: one request at a time, as main.rs runs the handler: the runtime *)
(* invokes request "A", inside a span of its own or not, on any thread,     *)
(* with any of the header maps and outcomes.                                *)
(***************************************************************************)
TheReq == "A"

InitOne == HookInit(OneSpanCount) /\ IdIdle /\ ReqIdle

NextOne ==
  \/ \E fresh \in RandomU64 : Invoke(TheReq, fresh)
  \/ \E t \in Threads, hs \in ReqHeaderMaps,
        newT \in RandomU64, newP \in RandomU64, fresh \in RandomU64 :
       Start(TheReq, t, hs, newT, newP, fresh)
  \/ \E t \in Threads, hs \in ReqHeaderMaps,
        newT \in RandomU64, newP \in RandomU64 :
       Abort(TheReq, t, hs, newT, newP)
  \/ \E t \in Threads : Resume(TheReq, t)
  \/ \E fresh \in RandomU64, init \in RandomU64 : Call(TheReq, fresh, init)
  \/ \E res \in Outcomes : Reply(TheReq, res)
  \/ \E res \in Outcomes : Finish(TheReq, res)
  \/ Leave(TheReq)

SpecOne == InitOne /\ [][NextOne]_vars

(***************************************************************************)
(* SpecReq: the requests of Reqs handled concurrently on the threads of a   *)
(* multi-threaded runtime: wherever a handler awaits, the runtime may poll  *)
(* another request's task and may resume this one on another thread.        *)
(***************************************************************************)
\* The header maps of concurrent requests: none, or the two headers.
ConcHeaderMaps ==
  {HeaderMap(NoHeader, NoHeader),
   HeaderMap(Header(FormatU64(HeaderId)), Header(FormatU64(HeaderId + 1)))}

ConcOutcomes == {Ok(200), Err("boom")}

InitReq == HookInit(ReqSpanCount) /\ IdIdle /\ ReqIdle

NextReq ==
  \/ \E r \in Reqs, t \in Threads, hs \in ConcHeaderMaps,
        newT \in RandomU64, newP \in RandomU64, fresh \in RandomU64 :
       Start(r, t, hs, newT, newP, fresh)
  \/ \E r \in Reqs, t \in Threads : Resume(r, t)
  \/ \E r \in Reqs, fresh \in RandomU64, init \in RandomU64 : Call(r, fresh, init)
  \/ \E r \in Reqs, res \in ConcOutcomes : Reply(r, res)
  \/ \E r \in Reqs, res \in ConcOutcomes : Finish(r, res)

SpecReq == InitReq /\ [][NextReq]_vars

(***************************************************************************)
(* Properties.                                                              *)
(***************************************************************************)
\* A decimal-encoded integer: one digit or more, nothing else.
IsDecimalText(bytes) ==
  /\ bytes # <<>>
  /\ \A i \in 1..Len(bytes) : IsDigit(bytes[i])

\* The number a decimal text denotes, by the weight of each position.
RECURSIVE DecimalValue(_)
DecimalValue(bytes) ==
  IF bytes = <<>> THEN 0
  ELSE DigitVal(bytes[Len(bytes)])
       + 10 * DecimalValue(SubSeq(bytes, 1, Len(bytes) - 1))

IsDecimalHeader(h) == h.present /\ IsDecimalText(h.bytes)

\* A header that is absent or that str::parse::<u64> cannot read.
IsUnusableHeader(h) == FromHeader(h) = None

\* C1: when both propagation headers of a request hold a decimal-encoded
\* integer, the identity has trace_id and parent_id equal to the numbers the
\* headers denote.
C1_IdentityFromHeaders ==
  (/\ identity # NoIdentity
   /\ IsDecimalHeader(inHeaders[TRACE_ID_HEADER])
   /\ IsDecimalHeader(inHeaders[PARENT_ID_HEADER]))
  => /\ identity.trace_id = DecimalValue(inHeaders[TRACE_ID_HEADER].bytes)
     /\ identity.parent_id = DecimalValue(inHeaders[PARENT_ID_HEADER].bytes)

\* An identity was taken from two decimal headers that differ, of two digits.
C1_Witness ==
  /\ identity # NoIdentity
  /\ inHeaders[TRACE_ID_HEADER] = Header(<<"1", "7">>)
  /\ inHeaders[PARENT_ID_HEADER] = Header(<<"0", "7">>)
  /\ identity.trace_id = 17
  /\ identity.parent_id = 7

\* C2: when both propagation headers are absent or unparseable, the identity
\* holds a generated trace id and the parent-span id 0.
C2_FreshIdentityHasParentZero ==
  (/\ identity # NoIdentity
   /\ IsUnusableHeader(inHeaders[TRACE_ID_HEADER])
   /\ IsUnusableHeader(inHeaders[PARENT_ID_HEADER]))
  => /\ identity.generated
     /\ identity.trace_id \in RandomU64
     /\ identity.parent_id = 0

\* C3: the start of a span's record is the clock at its first on_enter, and
\* 0 before; no later on_enter changes it.
C3_StartSetOnce ==
  \A s \in Spans :
    HasRec(s) => dd[s].start = (IF enters[s] = 0 THEN 0 ELSE firstEnter[s])

\* A span is entered for the second time, later than the first time.
C3_Witness ==
  \E s \in Spans :
    /\ HasRec(s)
    /\ active[s]
    /\ enters[s] = 2
    /\ now > firstEnter[s]
    /\ dd[s].start = firstEnter[s]

\* C4: the duration of the exported record of a span that was entered is the
\* clock at its last on_exit minus its start.
C4_DurationToLastExit ==
  \A i \in 1..Len(posted) :
    LET b == SpanOf(posted[i])
    IN  enters[b.span_id] >= 1 => b.duration = lastExit[b.span_id] - b.start

\* A span entered and exited twice, with time passing in between, is exported.
C4_Witness ==
  \E i \in 1..Len(posted) :
    LET b == SpanOf(posted[i])
    IN  /\ enters[b.span_id] = 2
        /\ b.start = 1
        /\ lastExit[b.span_id] = 3
        /\ b.duration = 2

\* C5: a span created under a parent that owns a record gets the parent's
\* trace_id and, as parent_id, the parent's span_id; a span without such a
\* parent gets the newly generated trace id and parent_id 0; each unless its
\* attributes carry dd.trace_id, dd.parent_id.
C5_InheritedIds ==
  \A s \in Spans :
    born[s].seen =>
      LET b == born[s]
      IN  /\ (b.parentTrace # None /\ ~b.hasTraceId) => b.ids[1] = b.parentTrace
          /\ (b.parentTrace # None /\ ~b.hasParentId) => b.ids[2] = b.parentSpan
          /\ (b.parentTrace = None /\ ~b.hasTraceId) => b.ids[1] = b.minted
          /\ (b.parentTrace = None /\ ~b.hasParentId) => b.ids[2] = 0

\* A span without a parent got a new trace id, and a span without id
\* attributes was created under a parent whose trace id came from an
\* attribute.
C5_Witness ==
  \E s \in Spans, c \in Spans :
    /\ born[s].seen /\ born[c].seen
    /\ born[s].parent = 0
    /\ born[s].hasTraceId
    /\ born[s].ids = <<HeaderId, 0>>
    /\ born[c].parent = s
    /\ ~born[c].hasTraceId /\ ~born[c].hasParentId
    /\ born[c].ids = <<HeaderId, s>>

\* The spans request r created.
Owned(r, s) == s # 0 /\ (s = req[r].root \/ s = req[r].call)

\* The request r established its identity.
Established(r) == req[r].pc # "new"

\* C6: every record exported for a span of a request carries the request's
\* trace id, and so do the outbound calls of the request.
C6_OneTraceIdPerRequest ==
  \A r \in Reqs :
    Established(r) =>
      /\ \A i \in 1..Len(posted) :
           Owned(r, SpanOf(posted[i]).span_id)
             => SpanOf(posted[i]).trace_id = req[r].trace_id
      /\ outbound[r] # NoCall
           => FromHeader(outbound[r].headers[TRACE_ID_HEADER]) = req[r].trace_id

\* C7: TraceId::get_current, called for a request, returns the trace id the
\* request stored.
C7_GetCurrentIsRequestScoped ==
  \A r \in Reqs :
    outbound[r] # NoCall => outbound[r].current = req[r].trace_id

\* C8: the headers of an outbound call carry the trace id of the request and
\* the span id of the call's reqwest.http span.
C8_OutboundHeaders ==
  \A r \in Reqs :
    outbound[r] # NoCall =>
      /\ outbound[r].headers[TRACE_ID_HEADER] = Header(FormatU64(req[r].trace_id))
      /\ outbound[r].headers[PARENT_ID_HEADER] = Header(FormatU64(req[r].call))
      /\ active[req[r].call]
      /\ dd[req[r].call].name = "reqwest.http"

\* C9: the exported record of the root span of a request without propagation
\* headers has a generated trace id and no parent_id member.
C9_RootWithoutHeaders ==
  \A i \in 1..Len(posted) :
    LET b == SpanOf(posted[i])
    IN  (/\ b.span_id = req[TheReq].root
         /\ req[TheReq].headers = HeaderMap(NoHeader, NoHeader))
        => /\ b.trace_id \in RandomU64
           /\ "parent_id" \notin DOMAIN b

\* C10: the exported record of the root span of a request whose trace id
\* header holds the decimal text of t has trace_id t, whatever the span the
\* root was created in.
C10_RootTraceIdFromHeader ==
  \A i \in 1..Len(posted) :
    LET b == SpanOf(posted[i])
        h == req[TheReq].headers[TRACE_ID_HEADER]
    IN  (b.span_id = req[TheReq].root /\ IsDecimalHeader(h))
        => b.trace_id = DecimalValue(h.bytes)

\* The root span of a request with a trace id header is exported, and it was
\* created in a span whose record had another trace id.
C10_Witness ==
  \E i \in 1..Len(posted) :
    LET b == SpanOf(posted[i])
        root == req[TheReq].root
    IN  /\ b.span_id = root
        /\ IsDecimalHeader(req[TheReq].headers[TRACE_ID_HEADER])
        /\ born[root].parent = req[TheReq].outer
        /\ born[root].parentTrace \in RandomU64
        /\ b.trace_id = HeaderId

\* The error flag the outcome of a wrapped operation asks for.
ErrorOf(res) == IF ~res.ok \/ res.status >= 500 THEN 1 ELSE 0

\* C11: the exported record of the root span, and of a reqwest.http span, has
\* error = 1 when the wrapped operation gave a status >= 500 or an error,
\* and error = 0 when it gave a status < 500.
C11_ErrorMirrorsOutcome ==
  \A i \in 1..Len(posted) :
    LET b == SpanOf(posted[i])
    IN  /\ (b.span_id = req[TheReq].root /\ req[TheReq].pc = "done")
             => b.error = ErrorOf(req[TheReq].res)
        /\ (b.span_id = req[TheReq].call /\ req[TheReq].pc = "handling")
             => b.error = ErrorOf(req[TheReq].callRes)

\* The root span of a request whose handler gave status 500 is exported with
\* error = 1, after a call of request_http that gave status 200.
C11_Witness ==
  \E i \in 1..Len(posted) :
    LET b == SpanOf(posted[i])
    IN  /\ b.span_id = req[TheReq].root
        /\ req[TheReq].pc = "done"
        /\ req[TheReq].res = Ok(500)
        /\ req[TheReq].callRes = Ok(200)
        /\ b.error = 1

\* C12: a step of the hooks never takes the error field of a span's record
\* from 1 back to 0.
C12_ErrorNeverCleared ==
  [][\A s \in Spans :
       (dd[s] # NoRec /\ dd'[s] # NoRec /\ dd[s].error = 1)
         => dd'[s].error = 1]_vars

\* C13: the exported record of the root span of a request whose handler gave
\* a response with status s has meta["http.status_code"] = the decimal text
\* of s.
C13_StatusCodeInMeta ==
  \A i \in 1..Len(posted) :
    LET b == SpanOf(posted[i])
    IN  (/\ b.span_id = req[TheReq].root
         /\ req[TheReq].pc = "done"
         /\ req[TheReq].res.ok)
        => /\ "http.status_code" \in DOMAIN b.meta
           /\ b.meta["http.status_code"] = ToString(req[TheReq].res.status)

\* C14: fields whose names are all outside of "dd.", applied as creation
\* attributes, by on_record or by on_event, leave the span's record as it
\* was, every member of it.
C14_OutsideFieldsChangeNothing ==
  visited # NoVisit => visited.after = visited.before

\* An event with the field error = false, outside of "dd.", was logged in a
\* span whose record has error = 1, meta entries and a start.
C14_Witness ==
  /\ visited # NoVisit
  /\ visited.hook = "on_event"
  /\ visited.fields = <<Field("error", "bool", FALSE)>>
  /\ visited.before.error = 1
  /\ visited.before.start = 1
  /\ "request_id" \in DOMAIN visited.before.meta

\* C17: every call of handle_request_with_trace that ended has called the
\* handler and has returned what the handler gave.
C17_ReturnsTheHandlersOutcome ==
  \A r \in Reqs :
    req[r].pc \in {"done", "aborted"} =>
      /\ req[r].res # NoOutcome
      /\ req[r].ret = req[r].res

\* The members of a record that its payload carries as they are.
PayloadNames ==
  {"name", "trace_id", "span_id", "start", "duration", "resource", "error",
   "meta", "metrics", "type"}

\* The payload is the record: member by member, with parent_id left out
\* exactly when it is 0.
IsPayloadOf(body, ds) ==
  LET b == SpanOf(body)
  IN  /\ \A k \in PayloadNames : b[k] = ds[k]
      /\ IF ds.parent_id = 0 THEN "parent_id" \notin DOMAIN b
          ELSE "parent_id" \in DOMAIN b /\ b.parent_id = ds.parent_id

\* The bodies handed to tasks so far, in flight or finished.
HandedOver == sending \cup {f.body : f \in finished}

\* C18: on_close hands the record of the span over once, as a payload that
\* equals the record at that moment; from then on the span stays closed and
\* without a record, and no step changes a payload that was handed over or
\* hands over another one for the same span.
C18_HandedOverOnceAtClose ==
  [][\A s \in Spans :
       /\ (life[s] = "open" /\ life'[s] = "closed" /\ dd[s] # NoRec)
            => /\ \E b \in sending' \ sending :
                    /\ IsPayloadOf(b, dd[s])
                    /\ sending' = sending \cup {b}
               /\ \A b \in HandedOver : SpanOf(b).span_id # s
               /\ dd'[s] = NoRec
       /\ life[s] = "closed"
            => /\ life'[s] = "closed"
               /\ dd'[s] = NoRec
               /\ \A b \in HandedOver : SpanOf(b).span_id = s => b \in HandedOver'
               /\ \A b \in HandedOver' : SpanOf(b).span_id = s => b \in HandedOver
    ]_vars

\* A span with error = 1 and a resource was closed and its payload is with
\* a task, while another span with a record is still open.
C18_Witness ==
  \E b \in sending, s \in Spans :
    /\ life[SpanOf(b).span_id] = "closed"
    /\ dd[SpanOf(b).span_id] = NoRec
    /\ SpanOf(b).error = 1
    /\ SpanOf(b).resource = "/p"
    /\ life[s] = "open"
    /\ dd[s] # NoRec

\* C20: at most one post is in flight at any time.
C20_OneSendInFlight == Cardinality(sending) <= 1


\* C15: a span that ends while the channel is at capacity does not hold
\* on_end back (the span is left to a task of its own), and under a fair
\* runtime that stays alive it is placed in the channel, taken by the
\* consumer loop and its export is carried out.
C15_BlockedSpanIsExported ==
  (mark.at = "ended" /\ mark.full) ~> (mark.at \in {"sent", "dropped"})

\* The marked span ended with the channel at capacity and was sent later.
C15_Witness == mark.full /\ mark.at = "sent" /\ lastExport = "ok"

\* C16: a send that failed is over.  SpanProcessor: when an export returns,
\* the channel and the waiting tasks are as before, a dropped span is never
\* in the channel, with a task or with the exporter again, nothing of the
\* spans or the requests changes, and the loop is back in rx.recv().
\* TracingLayer: a body is posted only on the close of a span, a finished
\* post stays finished, and its end changes nothing else.
C16_FailedSendIsDropped ==
  [][/\ (exporting # Idle /\ exporting' = Idle) =>
          /\ queue' = queue
          /\ waiting' = waiting
          /\ <<hookVars, idVars, reqVars>>' = <<hookVars, idVars, reqVars>>
     /\ exporting # Idle => exporting' \in {Idle, exporting}
     /\ mark.at = "dropped" =>
          /\ mark'.at = "dropped"
          /\ waiting'["marked"] = 0
          /\ exporting' # "marked"
          /\ \A i \in 1..Len(queue') : queue'[i] # "marked"
     /\ finished \subseteq finished'
     /\ finished' # finished =>
          /\ sending' \subseteq sending
          /\ sending' # sending
          /\ <<life, parentOf, active, dd, posted, visited>>'
               = <<life, parentOf, active, dd, posted, visited>>
          /\ <<idVars, reqVars, procVars>>' = <<idVars, reqVars, procVars>>
     /\ ~(sending' \subseteq sending) =>
          \E s \in Spans : life[s] = "open" /\ life'[s] = "closed"
    ]_vars

\* The export of the marked span failed and a later export went well; a post
\* of TracingLayer failed too.
C16_Witness ==
  /\ mark.at = "dropped"
  /\ lastExport = "ok"
  /\ \E f \in finished : ~f.ok

\* C19: the channel never holds more than Capacity spans.
C19_QueueWithinCapacity == Len(queue) <= Capacity

\* The channel is at capacity, the exporter is busy and an ended span waits.
C19_Witness == Len(queue) = Capacity /\ exporting # Idle /\ Blocked > 0


\* C21: a hook called for an open span without a DDSpan goes through and
\* does nothing: the span gets no record, no record of any span changes,
\* and its close hands no body to a task.
C21_NoRecordNoEffect ==
  [][\A s \in Spans :
       (life[s] = "open" /\ ~HasRec(s)) =>
         /\ dd'[s] = NoRec
         /\ (active'[s] # active[s] \/ life'[s] # life[s]) =>
              /\ dd' = dd
              /\ sending' = sending
              /\ finished' = finished
              /\ posted' = IF life'[s] = "closed" THEN <<>> ELSE posted
    ]_vars

\* A span without a DDSpan was entered, left and closed next to an open span
\* with a DDSpan, and nothing was handed over.
C21_Witness ==
  \E s \in Spans, t \in Spans :
    /\ born[s] = NotBorn
    /\ life[s] = "closed"
    /\ enters[s] > 0
    /\ ~active[s]
    /\ dd[s] = NoRec
    /\ life[t] = "open"
    /\ HasRec(t)
    /\ sending = {}
    /\ posted = <<>>


\* The bodies handed to tasks for span s.
BodiesOf(s) == {b \in sending : SpanOf(b).span_id = s}

\* C22: a span with a DDSpan that is closed without ever having been entered
\* is handed over for export, with start = 0 and duration = 0.
C22_NeverEnteredExportedWithZeros ==
  \A s \in Spans :
    (life[s] = "closed" /\ born[s] # NotBorn /\ enters[s] = 0) =>
      /\ BodiesOf(s) # {}
      /\ \A b \in BodiesOf(s) : SpanOf(b).start = 0 /\ SpanOf(b).duration = 0

\* A span was created, time passed, and it was closed without an enter.
C22_Witness ==
  \E s \in Spans :
    /\ life[s] = "closed"
    /\ born[s] # NotBorn
    /\ enters[s] = 0
    /\ now > 1
    /\ \E b \in BodiesOf(s) : SpanOf(b).start = 0 /\ SpanOf(b).duration = 0


\* The members of DDSpan other than parent_id, by their names in JSON.
AlwaysNames ==
  {"name", "trace_id", "span_id", "start", "duration", "service",
   "resource", "error", "meta", "metrics", "type"}

\* C23: the span object serialized at the close of a span has the member
\* parent_id exactly when the parent_id of the record is not 0, then with
\* that value, and has every other member of the record whatever it holds.
C23_ParentIdOmittedIffZero ==
  [][\A s \in Spans :
       (life[s] = "open" /\ life'[s] = "closed" /\ HasRec(s)) =>
         /\ Len(posted') = 1
         /\ LET o == SpanOf(posted'[1])
            IN  /\ ("parent_id" \in DOMAIN o) <=> (dd[s].parent_id # 0)
                /\ "parent_id" \in DOMAIN o => o.parent_id = dd[s].parent_id
                /\ AlwaysNames \subseteq DOMAIN o
                /\ DOMAIN o \subseteq AlwaysNames \cup {"parent_id"}
    ]_vars

\* Two spans were closed: the object of one has no parent_id, the object of
\* the other has the span_id of the first as its parent_id.
C23_Witness ==
  \E b \in sending, c \in sending :
    /\ "parent_id" \notin DOMAIN SpanOf(b)
    /\ "parent_id" \in DOMAIN SpanOf(c)
    /\ SpanOf(c).parent_id = SpanOf(b).span_id
    /\ SpanOf(b).resource = ""
    /\ SpanOf(b).meta = EmptyMap


\* The number of places the marked span is in: with a task of on_end, in the
\* channel, with the exporter, or past its export.
MarkedInChannel == Cardinality({i \in 1..Len(queue) : queue[i] = "marked"})

MarkedPlaces ==
  waiting["marked"] + MarkedInChannel
    + (IF exporting = "marked" THEN 1 ELSE 0)
    + (IF mark.at \in {"sent", "dropped"} THEN 1 ELSE 0)

\* C24: a sampled span given to on_end is in exactly one place at any time,
\* and is given to exporter.export at most once: the spans in flight change only
\* by one more at an on_end and by one less at the return of an export, the
\* marked span goes to the exporter only from the channel, before any
\* export of it, and is in the channel at most once.
C24_NeitherLostNorDuplicated ==
  [][/\ mark.at \in {"ended", "sent", "dropped"} => MarkedPlaces = 1
     /\ mark'.at \in {"ended", "sent", "dropped"} => MarkedPlaces' = 1
     /\ \/ InFlight' = InFlight
        \/ InFlight' = InFlight + 1 /\ Blocked' = Blocked + 1
        \/ InFlight' = InFlight - 1 /\ exporting # Idle /\ exporting' = Idle
     /\ (exporting # "marked" /\ exporting' = "marked") =>
          /\ mark.at = "ended"
          /\ MarkedInChannel = 1
          /\ MarkedInChannel' = 0
     /\ mark.at \in {"sent", "dropped"} => mark' = mark
    ]_vars

\* The marked span was exported while other spans wait with their tasks, in
\* the channel and with the exporter.
C24_Witness ==
  /\ mark.at = "sent"
  /\ MarkedPlaces = 1
  /\ Blocked > 0
  /\ queue # <<>>
  /\ exporting = "span"

\* C26: a span that is not sampled gets no task from on_end, and is never
\* in the channel or with the exporter.
C26_UnsampledNeverExported ==
  [][/\ (mark.at = "new" /\ mark'.at = "unsampled") =>
          <<waiting, queue, exporting>>' = <<waiting, queue, exporting>>
     /\ mark'.at = "unsampled" =>
          /\ waiting'["marked"] = 0
          /\ MarkedInChannel' = 0
          /\ exporting' # "marked"
     /\ mark.at = "unsampled" => mark' = mark
    ]_vars

\* The marked span ended unsampled while the channel was at capacity, and
\* other spans were exported since.
C26_Witness ==
  /\ mark.at = "unsampled"
  /\ mark.full
  /\ lastExport = "ok"
  /\ queue = <<>>


\* C25: at every on_exit the clock read is not before start, so now - start
\* does not go below 0: the duration of a record and of a serialized span is
\* a number of nanoseconds from 0 up.
C25_DurationNeverBelowZero ==
  /\ \A s \in Spans : HasRec(s) => dd[s].duration >= 0
  /\ \A b \in sending : SpanOf(b).duration >= 0

====
